---- MODULE Spec2Model ----
(***************************************************************************)
(* Transcript segmentation and annotation engine of commclimb.com.         *)
(*                                                                         *)
(*   SpeechTracker      src/services/geminiService.ts (lines 79-161)       *)
(*   renderSegment      src/components/TranscriptView.tsx (lines 149-201)  *)
(*   handleMouseUp,                                                        *)
(*   saveHighlight      src/components/TranscriptView.tsx (lines 33-146)   *)
(*   SpeakingSpeedView  src/unnamed/part_000 (lines 399-436)               *)
(*   VideoRecorder      src/unnamed/part_000 (lines 11-106)                *)
(*   storageService     src/services/storageService.ts (lines 16-153)      *)
(*                                                                         *)
(* Times are integers in milliseconds: Date.now() is an integer number of  *)
(* milliseconds and the tracker stores (Date.now() - startTime) / 1000, so *)
(* a stored time t stands for the number t / 1000 of seconds.  Strings are *)
(* sequences of one-character strings.  Arrays are objects on a heap,      *)
(* because stop() hands out the very array onresult pushes to.             *)
(***************************************************************************)
EXTENDS Integers, Sequences, FiniteSets, TLC

VARIABLES
    recognition,          \* SpeechTracker.recognition exists (truthy)
    isListening,          \* SpeechTracker.isListening
    segments,             \* SpeechTracker.segments: reference to an array on the heap
    startTime,            \* SpeechTracker.startTime
    currentSegmentStart,  \* SpeechTracker.currentSegmentStart (the cursor)
    heap,                 \* array reference -> contents
    now,                  \* Date.now()
    recState,             \* the browser recognizer: "idle", "running", "stopping"
    endPending,           \* the recognizer has ended and its 'end' event is queued
    calls,                \* recognizer methods the most recent handler called
    last,                 \* the most recent tracker method or handler and what it was given
    fault,                \* what became of an exception in it: "none", "caught", "raised"
    transcript,           \* the array stop() returned in this session (0: none yet)
    text,                 \* TranscriptView: segment.text of the segment rendered
    segmentNotes,         \* TranscriptView: the notes of that segment, in stored order
    elements,             \* TranscriptView: what renderSegment returned for them
    selection,            \* TranscriptView: the pending selection (useState, line 33)
    noteContent,          \* TranscriptView: the text typed into the popover
    selectedColor,        \* TranscriptView: the colour picked in the popover
    winSelection,         \* the document's selection, window.getSelection()
    handled,              \* TranscriptView: the handler that ran last
    added,                \* onAddHighlight calls that handler made
    rateTranscript,       \* SpeakingSpeedView: the transcript prop
    stats,                \* SpeakingSpeedView: stats (useMemo, line 401)
    category,             \* SpeakingSpeedView: category (line 436)
    speechTracker,        \* VideoRecorder: speechTracker.current is set (line 28)
    isSupported,          \* VideoRecorder: isSupported (useState, line 22)
    error,                \* VideoRecorder: error is not the empty string (line 20)
    stream,               \* VideoRecorder: stream is not null (line 19)
    cameraPending,        \* VideoRecorder: getUserMedia was called and has not settled
    isRecording,          \* VideoRecorder: isRecording (line 18)
    mediaRecorder,        \* VideoRecorder: mediaRecorderRef.current is set (line 67)
    delivered,            \* VideoRecorder: the array stopRecording got from stop() (line 91)
    recorderCalls,        \* tracker methods the most recent VideoRecorder handler called
    storedUsers,          \* localStorage item commclimb_users, parsed
    storedProjects,       \* localStorage item commclimb_projects, parsed
    storedNotes,          \* localStorage item commclimb_notes, parsed
    currentUser,          \* localStorage item commclimb_current_user: the user's id
    uuids,                \* how many ids crypto.randomUUID() has handed out
    storeCall             \* the most recent storage function, its argument and outcome

trackerVars == <<recognition, isListening, segments, startTime, currentSegmentStart,
                 heap, now, recState, endPending, calls, last, fault, transcript>>

viewVars == <<text, segmentNotes, elements>>

selectVars == <<selection, noteContent, selectedColor, winSelection, handled, added>>

rateVars == <<rateTranscript, stats, category>>

recorderVars == <<speechTracker, isSupported, error, stream, cameraPending, isRecording,
                  mediaRecorder, delivered, recorderCalls>>

storeVars == <<storedUsers, storedProjects, storedNotes, currentUser, uuids, storeCall>>

vars == <<trackerVars, viewVars, selectVars, rateVars, recorderVars, storeVars>>

\* what neither the tracker nor VideoRecorder touches
nonRecorder == <<viewVars, selectVars, rateVars, storeVars>>

\* what the tracker's methods and handlers never touch
nonTracker == <<nonRecorder, recorderVars>>

\* what rendering a segment never touches
nonView == <<trackerVars, selectVars, rateVars, recorderVars, storeVars>>

\* what the selection handlers never touch
nonSelect == <<trackerVars, viewVars, rateVars, recorderVars, storeVars>>

\* what the speaking-rate view never touches
nonRate == <<trackerVars, viewVars, selectVars, recorderVars, storeVars>>

\* what the storage functions never touch
nonStore == <<trackerVars, viewVars, selectVars, rateVars, recorderVars>>

\* ------------------------------------------------------------------ bounds
MaxTime == 2       \* Date.now() runs from 1 to MaxTime
MaxSegs == 2       \* longest segment array
MaxResults == 2    \* longest event.results
MaxLen == 4        \* longest segment text the view is given
MaxNotes == 2      \* most notes on the segment
MaxStored == 2     \* most notes in localStorage

\* ------------------------------------------------------------------ strings
Whitespace == {" "}

RECURSIVE trimStart(_)
trimStart(s) ==
    IF s # <<>> /\ Head(s) \in Whitespace THEN trimStart(Tail(s)) ELSE s

RECURSIVE trimEnd(_)
trimEnd(s) ==
    IF s # <<>> /\ s[Len(s)] \in Whitespace
    THEN trimEnd(SubSeq(s, 1, Len(s) - 1))
    ELSE s

\* String.prototype.trim
trim(s) == trimEnd(trimStart(s))

\* ------------------------------------------------------------------ inputs
\* transcripts the recognizer reports: blank, padded on the left, padded on the right
Transcripts == { <<" ">>, <<" ", "a">>, <<"b", " ">> }

\* interimResults = false (line 95): the recognizer reports final results; the handler
\* still tests isFinal (line 101), so one interim result is among the inputs
Results == [isFinal : {TRUE}, transcript : Transcripts]
               \cup {[isFinal |-> FALSE, transcript |-> <<" ", "a">>]}

\* a result the recognizer reported in an earlier event of the same recognition
OldResult == [isFinal |-> TRUE, transcript |-> <<"b", " ">>]

\* a SpeechRecognitionEvent: results[0 .. resultIndex-1] were reported before,
\* results[resultIndex ..] are new
Events == UNION { { [resultIndex |-> i,
                     results |-> [k \in 1..i |-> OldResult] \o new] :
                    new \in [1..(n - i) -> Results] } :
                  <<n, i>> \in { <<n, i>> \in (1..MaxResults) \X (0..MaxResults) : i < n } }

\* the working array, the array VideoRecorder holds, and the one start() creates
ArrayRefs == 1..3
NoRef == 0

\* ------------------------------------------------------------------ the recognizer
\* SpeechRecognition.start(): an idle recognizer starts; otherwise the call throws
\* InvalidStateError, which both callers catch, and nothing changes
recAfterStart(st) == IF st = "idle" THEN "running" ELSE st
\* (mutant) the InvalidStateError is left to the caller
faultAfterStart_uncaught(st) == IF st = "idle" THEN "none" ELSE "raised"
\* both callers catch it: lines 126-130 and 142-146
faultAfterStart(st) == IF st = "idle" THEN "none" ELSE "caught"
\* SpeechRecognition.stop(): the recognizer winds down; it may still return a result
recAfterStop(st) == IF st = "running" THEN "stopping" ELSE st

\* ------------------------------------------------------------------ onresult
Segment(s, e, t) == [startTime |-> s, endTime |-> e, text |-> t]

\* (mutant) the absolute instant, the session start not subtracted
endTimeAt_absolute(t, sessionStart) == t

\* line 103: (Date.now() - this.startTime) / 1000, in milliseconds
endTimeAt(t, sessionStart) == t - sessionStart

\* (mutant) tests the text as reported, not the trimmed text
addsSegment_untrimmed(result) == result.isFinal /\ result.transcript # <<>>

\* lines 101 and 106: the result is final and its trimmed text is not empty
addsSegment(result) == result.isFinal /\ trim(result.transcript) # <<>>

\* (mutant) puts each new segment in front of the list
RECURSIVE onresultLoop_newestFirst(_, _, _, _)
onresultLoop_newestFirst(i, results, segs, cursor) ==
    IF i >= Len(results)
    THEN [segments |-> segs, currentSegmentStart |-> cursor]
    ELSE LET result == results[i + 1]
             endTime == endTimeAt(now, startTime)
         IN  IF addsSegment(result)
             THEN onresultLoop_newestFirst(i + 1, results,
                      <<Segment(cursor, endTime, trim(result.transcript))>> \o segs,
                      endTime)
             ELSE onresultLoop_newestFirst(i + 1, results, segs, cursor)

\* (mutant) line 112 missing: the cursor stays where it is
RECURSIVE onresultLoop_keepsCursor(_, _, _, _)
onresultLoop_keepsCursor(i, results, segs, cursor) ==
    IF i >= Len(results)
    THEN [segments |-> segs, currentSegmentStart |-> cursor]
    ELSE LET result == results[i + 1]
             endTime == endTimeAt(now, startTime)
         IN  IF addsSegment(result)
             THEN onresultLoop_keepsCursor(i + 1, results,
                      Append(segs, Segment(cursor, endTime, trim(result.transcript))),
                      cursor)
             ELSE onresultLoop_keepsCursor(i + 1, results, segs, cursor)

\* lines 100-115: for (i = event.resultIndex; i < event.results.length; ++i)
RECURSIVE onresultLoop(_, _, _, _)
onresultLoop(i, results, segs, cursor) ==
    IF i >= Len(results)
    THEN [segments |-> segs, currentSegmentStart |-> cursor]
    ELSE LET result == results[i + 1]
             endTime == endTimeAt(now, startTime)
         IN  IF addsSegment(result)
             THEN onresultLoop(i + 1, results,
                               Append(segs, Segment(cursor, endTime, trim(result.transcript))),
                               endTime)
             ELSE onresultLoop(i + 1, results, segs, cursor)

\* what the handler was given: how many new final results, and how many of them blank
NewResults(event) == SubSeq(event.results, event.resultIndex + 1, Len(event.results))
Finals(event) == { i \in DOMAIN NewResults(event) : NewResults(event)[i].isFinal }
IsBlank(t) == \A k \in DOMAIN t : t[k] \in Whitespace
Blanks(event) == { i \in Finals(event) : IsBlank(NewResults(event)[i].transcript) }
Called(op) == [op |-> op, finals |-> 0, blanks |-> 0]

onresult(event) ==
    /\ recognition
    /\ recState \in {"running", "stopping"}
    /\ calls' = <<>>
    /\ fault' = "none"
    /\ last' = [op |-> "onresult", finals |-> Cardinality(Finals(event)),
                blanks |-> Cardinality(Blanks(event))]
    /\ LET r == onresultLoop(event.resultIndex, event.results,
                             heap[segments], currentSegmentStart)
       IN  /\ Len(r.segments) <= MaxSegs
           /\ heap' = [heap EXCEPT ![segments] = r.segments]
           /\ currentSegmentStart' = r.currentSegmentStart
    /\ UNCHANGED <<recognition, isListening, segments, startTime, now, recState,
                   endPending, transcript>>
    /\ UNCHANGED nonTracker

\* ------------------------------------------------------------------ onerror
onerror ==
    /\ recognition
    /\ recState \in {"running", "stopping"}
    /\ calls' = <<>>
    /\ fault' = "none"
    /\ last' = Called("onerror")
    /\ UNCHANGED <<recognition, isListening, segments, startTime, currentSegmentStart,
                   heap, now, recState, endPending, transcript>>
    /\ UNCHANGED nonTracker

\* ------------------------------------------------------------------ onend
\* the recognizer stops by itself (silence) or after stop(), and queues its 'end' event
recognizerEnds ==
    /\ recognition
    /\ recState \in {"running", "stopping"}
    /\ ~endPending
    /\ recState' = "idle"
    /\ endPending' = TRUE
    /\ UNCHANGED <<recognition, isListening, segments, startTime, currentSegmentStart,
                   heap, now, calls, last, fault, transcript>>
    /\ UNCHANGED nonTracker

\* (mutant) restarts whether or not the session is active
onend_always ==
    /\ recognition
    /\ endPending
    /\ endPending' = FALSE
    /\ calls' = <<"start">>
    /\ recState' = recAfterStart(recState)
    /\ fault' = faultAfterStart(recState)
    /\ last' = Called("onend")
    /\ UNCHANGED <<recognition, isListening, segments, startTime, currentSegmentStart,
                   heap, now, transcript>>
    /\ UNCHANGED nonTracker

\* (mutant) restarts through the tracker's own start(), which resets the session
onend_resets ==
    /\ recognition
    /\ endPending
    /\ endPending' = FALSE
    /\ IF isListening
       THEN /\ calls' = <<"start">>
            /\ recState' = recAfterStart(recState)
            /\ fault' = faultAfterStart(recState)
            /\ heap' = [heap EXCEPT ![segments] = <<>>]
            /\ startTime' = now
            /\ currentSegmentStart' = 0
       ELSE /\ calls' = <<>>
            /\ fault' = "none"
            /\ UNCHANGED <<recState, heap, startTime, currentSegmentStart>>
    /\ last' = Called("onend")
    /\ UNCHANGED <<recognition, isListening, segments, now, transcript>>
    /\ UNCHANGED nonTracker

onend ==
    /\ recognition
    /\ endPending
    /\ endPending' = FALSE
    /\ IF isListening
       THEN /\ calls' = <<"start">>
            /\ recState' = recAfterStart(recState)
            /\ fault' = faultAfterStart(recState)
       ELSE /\ calls' = <<>>
            /\ fault' = "none"
            /\ UNCHANGED recState
    /\ last' = Called("onend")
    /\ UNCHANGED <<recognition, isListening, segments, startTime, currentSegmentStart,
                   heap, now, transcript>>
    /\ UNCHANGED nonTracker

\* ------------------------------------------------------------------ start, stop
\* this.segments = []: a new array.  The list an earlier stop() returned is no
\* longer followed once a new session starts, unless VideoRecorder holds it;
\* arrays not followed are dropped.
newArray == CHOOSE r \in ArrayRefs : r # segments /\ r # delivered

collect(h, live) == [r \in ArrayRefs |-> IF r \in live THEN h[r] ELSE <<>>]

\* (mutant) the cursor is not put back to 0
start_keepsCursor ==
    /\ IF recognition
       THEN /\ segments' = newArray
            /\ heap' = collect([heap EXCEPT ![newArray] = <<>>], {newArray})
            /\ transcript' = NoRef
            /\ startTime' = now
            /\ isListening' = TRUE
            /\ calls' = <<"start">>
            /\ recState' = recAfterStart(recState)
            /\ fault' = faultAfterStart(recState)
            /\ UNCHANGED currentSegmentStart
       ELSE /\ calls' = <<>>
            /\ fault' = "none"
            /\ UNCHANGED <<segments, heap, startTime, currentSegmentStart, isListening,
                           recState, transcript>>
    /\ last' = Called("start")
    /\ UNCHANGED <<recognition, now, endPending>>
    /\ UNCHANGED nonTracker

\* (mutant) goes on with the array it has
start_keepsList ==
    /\ IF recognition
       THEN /\ transcript' = NoRef
            /\ startTime' = now
            /\ currentSegmentStart' = 0
            /\ isListening' = TRUE
            /\ calls' = <<"start">>
            /\ recState' = recAfterStart(recState)
            /\ fault' = faultAfterStart(recState)
            /\ UNCHANGED <<segments, heap>>
       ELSE /\ calls' = <<>>
            /\ fault' = "none"
            /\ UNCHANGED <<segments, heap, startTime, currentSegmentStart, isListening,
                           recState, transcript>>
    /\ last' = Called("start")
    /\ UNCHANGED <<recognition, now, endPending>>
    /\ UNCHANGED nonTracker

\* (mutant) empties the array it has instead of making a new one
startCall_inPlace ==
    /\ IF recognition
       THEN /\ heap' = collect([heap EXCEPT ![segments] = <<>>], {segments, delivered})
            /\ transcript' = NoRef
            /\ startTime' = now
            /\ currentSegmentStart' = 0
            /\ isListening' = TRUE
            /\ calls' = <<"start">>
            /\ recState' = recAfterStart(recState)
            /\ fault' = faultAfterStart(recState)
            /\ UNCHANGED segments
       ELSE /\ calls' = <<>>
            /\ fault' = "none"
            /\ UNCHANGED <<segments, heap, startTime, currentSegmentStart, isListening,
                           recState, transcript>>
    /\ last' = Called("start")
    /\ UNCHANGED <<recognition, now, endPending>>

\* the body of start(), lines 137-147
startCall ==
    /\ IF recognition
       THEN /\ segments' = newArray
            /\ heap' = collect([heap EXCEPT ![newArray] = <<>>], {newArray, delivered})
            /\ transcript' = NoRef
            /\ startTime' = now
            /\ currentSegmentStart' = 0
            /\ isListening' = TRUE
            /\ calls' = <<"start">>
            /\ recState' = recAfterStart(recState)
            /\ fault' = faultAfterStart(recState)
       ELSE /\ calls' = <<>>
            /\ fault' = "none"
            /\ UNCHANGED <<segments, heap, startTime, currentSegmentStart, isListening,
                           recState, transcript>>
    /\ last' = Called("start")
    /\ UNCHANGED <<recognition, now, endPending>>

\* start() called on the tracker
start ==
    /\ startCall
    /\ UNCHANGED nonTracker

\* (mutant) hands the list out and empties it
stop_clears ==
    /\ IF recognition
       THEN /\ isListening' = FALSE
            /\ calls' = <<"stop">>
            /\ recState' = recAfterStop(recState)
       ELSE /\ calls' = <<>>
            /\ UNCHANGED <<isListening, recState>>
    /\ transcript' = segments
    /\ heap' = [r \in ArrayRefs |-> <<>>]
    /\ fault' = "none"
    /\ last' = Called("stop")
    /\ UNCHANGED <<recognition, segments, startTime, currentSegmentStart, now,
                   endPending>>
    /\ UNCHANGED nonTracker

\* the body of stop(), lines 151-155; it returns this.segments
stopCall ==
    /\ IF recognition
       THEN /\ isListening' = FALSE
            /\ calls' = <<"stop">>
            /\ recState' = recAfterStop(recState)
       ELSE /\ calls' = <<>>
            /\ UNCHANGED <<isListening, recState>>
    /\ transcript' = segments
    /\ heap' = collect(heap, {segments, delivered})
    /\ fault' = "none"
    /\ last' = Called("stop")
    /\ UNCHANGED <<recognition, segments, startTime, currentSegmentStart, now,
                   endPending>>

\* stop() called on the tracker
stop ==
    /\ stopCall
    /\ UNCHANGED nonTracker

\* ------------------------------------------------------------------ the clock
tick ==
    /\ now < MaxTime
    /\ now' = now + 1
    /\ UNCHANGED <<recognition, isListening, segments, startTime, currentSegmentStart,
                   heap, recState, endPending, calls, last, fault, transcript>>
    /\ UNCHANGED nonTracker

\* ------------------------------------------------------------------ VideoRecorder
\* the record button is on screen: the component is past its 'not supported'
\* page (line 114), shows no error (line 166) and is not recording (line 167)
startShown == isSupported /\ ~error /\ ~isRecording
\* the stop button is on screen (lines 166-173)
stopShown == isSupported /\ ~error /\ isRecording
\* the Retry Camera button is on screen (lines 114, 157-161)
retryShown == isSupported /\ error

\* (mutant) the effect does not ask the tracker whether recognition exists
mount_unchecked ==
    /\ ~speechTracker
    /\ speechTracker' = TRUE
    /\ cameraPending' = TRUE
    /\ recorderCalls' = <<>>
    /\ UNCHANGED <<isSupported, error, stream, isRecording, mediaRecorder, delivered>>
    /\ UNCHANGED <<trackerVars, nonRecorder>>

\* useEffect(..., []), lines 25-36: runs once after the first rendering
mount ==
    /\ ~speechTracker
    /\ speechTracker' = TRUE
    /\ IF ~recognition
       THEN /\ isSupported' = FALSE
            /\ error' = TRUE
            /\ UNCHANGED cameraPending
       ELSE /\ cameraPending' = TRUE
            /\ UNCHANGED <<isSupported, error>>
    /\ recorderCalls' = <<>>
    /\ UNCHANGED <<stream, isRecording, mediaRecorder, delivered>>
    /\ UNCHANGED <<trackerVars, nonRecorder>>

\* the Retry Camera button: startCamera up to its await, line 45
startCamera ==
    /\ retryShown
    /\ cameraPending' = TRUE
    /\ recorderCalls' = <<>>
    /\ UNCHANGED <<speechTracker, isSupported, error, stream, isRecording, mediaRecorder,
                   delivered>>
    /\ UNCHANGED <<trackerVars, nonRecorder>>

\* getUserMedia settles: lines 46-50 when the user grants, line 52 when not
cameraSettles(granted) ==
    /\ cameraPending
    /\ cameraPending' = FALSE
    /\ IF granted
       THEN stream' = TRUE /\ error' = FALSE
       ELSE error' = TRUE /\ UNCHANGED stream
    /\ recorderCalls' = <<>>
    /\ UNCHANGED <<speechTracker, isSupported, isRecording, mediaRecorder, delivered>>
    /\ UNCHANGED <<trackerVars, nonRecorder>>

\* startRecording, lines 62-85; new MediaRecorder(...) throws for a stream or a
\* mime type the browser cannot record, and then nothing after line 66 runs
startRecording(recordable) ==
    /\ startShown
    /\ IF ~stream \/ ~speechTracker \/ ~recordable
       THEN /\ recorderCalls' = <<>>
            /\ UNCHANGED <<isRecording, mediaRecorder>>
            /\ UNCHANGED trackerVars
       ELSE /\ mediaRecorder' = TRUE
            /\ startCall
            /\ recorderCalls' = <<"start">>
            /\ isRecording' = TRUE
    /\ UNCHANGED <<speechTracker, isSupported, error, stream, cameraPending, delivered>>
    /\ UNCHANGED nonRecorder

\* stopRecording, lines 87-106; the transcript goes to onRecordingComplete (line 101)
stopRecording ==
    /\ stopShown
    /\ IF mediaRecorder /\ isRecording /\ speechTracker
       THEN /\ stopCall
            /\ delivered' = segments
            /\ recorderCalls' = <<"stop">>
            /\ isRecording' = FALSE
       ELSE /\ recorderCalls' = <<>>
            /\ UNCHANGED <<isRecording, delivered>>
            /\ UNCHANGED trackerVars
    /\ UNCHANGED <<speechTracker, isSupported, error, stream, cameraPending,
                   mediaRecorder>>
    /\ UNCHANGED nonRecorder

\* lines 16-23: the component before its effect has run
RecorderInit ==
    /\ speechTracker = FALSE
    /\ isSupported = TRUE
    /\ error = FALSE
    /\ stream = FALSE
    /\ cameraPending = FALSE
    /\ isRecording = FALSE
    /\ mediaRecorder = FALSE
    /\ delivered = NoRef
    /\ recorderCalls = <<>>

\* ------------------------------------------------------------------ renderSegment
Min(a, b) == IF a <= b THEN a ELSE b
Max(a, b) == IF a >= b THEN a ELSE b

\* (mutant) the offset as stored
clamp_none(x, length) == x

\* line 160: Math.max(0, Math.min(x, text.length))
clamp(x, length) == Max(0, Min(x, length))

\* String.prototype.substring: both indices are brought into the string, the smaller
\* one comes first
substring(s, a, b) ==
    LET a1 == Max(0, Min(a, Len(s)))
        b1 == Max(0, Min(b, Len(s)))
    IN  SubSeq(s, Min(a1, b1) + 1, Max(a1, b1))

\* Note.highlightStart and Note.highlightEnd are optional: an undefined field is absent
defined(n, f) == f \in DOMAIN n

\* (mutant) starts from an empty set, without 0 and text.length
pointsOf_noEnds(t, notes) ==
    { clamp(notes[j].highlightStart, Len(t)) :
      j \in { k \in DOMAIN notes : defined(notes[k], "highlightStart") } }
      \cup { clamp(notes[j].highlightEnd, Len(t)) :
             j \in { k \in DOMAIN notes : defined(notes[k], "highlightEnd") } }

\* (mutant) takes highlightEnd as the last character and adds the point after it too
pointsOf_inclusiveEnd(t, notes) ==
    {0, Len(t)}
      \cup { clamp(notes[j].highlightStart, Len(t)) :
             j \in { k \in DOMAIN notes : defined(notes[k], "highlightStart") } }
      \cup { clamp(notes[j].highlightEnd, Len(t)) :
             j \in { k \in DOMAIN notes : defined(notes[k], "highlightEnd") } }
      \cup { clamp(notes[j].highlightEnd + 1, Len(t)) :
             j \in { k \in DOMAIN notes : defined(notes[k], "highlightEnd") } }

\* lines 158-162: the set of boundaries
pointsOf(t, notes) ==
    {0, Len(t)}
      \cup { clamp(notes[j].highlightStart, Len(t)) :
             j \in { k \in DOMAIN notes : defined(notes[k], "highlightStart") } }
      \cup { clamp(notes[j].highlightEnd, Len(t)) :
             j \in { k \in DOMAIN notes : defined(notes[k], "highlightEnd") } }

\* line 164: Array.from(points).sort((a, b) => a - b)
RECURSIVE sortAscending(_)
sortAscending(S) ==
    IF S = {} THEN <<>>
    ELSE LET least == CHOOSE x \in S : \A y \in S : x <= y
         IN  <<least>> \o sortAscending(S \ {least})

\* (mutant) takes the smaller offset as the start and the larger as the end
coversMid_unordered(n, begin, end) ==
    /\ defined(n, "highlightStart")
    /\ defined(n, "highlightEnd")
    /\ 2 * Min(n.highlightStart, n.highlightEnd) <= 2 * begin + (end - begin)
    /\ 2 * Max(n.highlightStart, n.highlightEnd) >= 2 * begin + (end - begin)

\* lines 178-181, where mid = start + (end - start) / 2 (start is begin here); mid may
\* be a half, so both sides of each comparison are doubled
coversMid(n, begin, end) ==
    /\ defined(n, "highlightStart")
    /\ defined(n, "highlightEnd")
    /\ 2 * n.highlightStart <= 2 * begin + (end - begin)
    /\ 2 * n.highlightEnd >= 2 * begin + (end - begin)

reverse(seq) == [k \in 1..Len(seq) |-> seq[Len(seq) + 1 - k]]

\* Array.prototype.find on a sequence of positions: the first that satisfies, or 0
RECURSIVE findFirst(_, _, _, _)
findFirst(order, notes, begin, end) ==
    IF order = <<>> THEN 0
    ELSE IF coversMid(notes[Head(order)], begin, end) THEN Head(order)
    ELSE findFirst(Tail(order), notes, begin, end)

\* (mutant) find without reverse: the first covering note wins
activeNote_firstWins(notes, begin, end) ==
    findFirst([k \in 1..Len(notes) |-> k], notes, begin, end)

\* line 177: segmentNotes.slice().reverse().find(...); the note is named by its
\* position in segmentNotes, 0 when there is none
activeNote(notes, begin, end) ==
    findFirst(reverse([k \in 1..Len(notes) |-> k]), notes, begin, end)

DefaultColor == "#FDE047"
NoColor == "none"

\* line 188: activeNote.color || '#FDE047'
backgroundOf(n) == IF defined(n, "color") THEN n.color ELSE DefaultColor

\* one rendered span: where its text starts (its key), the text, the note that styles it
Element(begin, partText, note, color) ==
    [start |-> begin, text |-> partText, note |-> note, backgroundColor |-> color]

\* lines 167-198
RECURSIVE renderLoop(_, _, _, _, _)
renderLoop(i, sortedPoints, t, notes, out) ==
    IF i >= Len(sortedPoints) - 1 THEN out
    ELSE LET begin == sortedPoints[i + 1]
             end == sortedPoints[i + 2]
             partText == substring(t, begin, end)
             note == activeNote(notes, begin, end)
         IN  IF partText = <<>>
             THEN renderLoop(i + 1, sortedPoints, t, notes, out)
             ELSE IF note # 0
             THEN renderLoop(i + 1, sortedPoints, t, notes,
                             Append(out, Element(begin, partText, note,
                                                 backgroundOf(notes[note]))))
             ELSE renderLoop(i + 1, sortedPoints, t, notes,
                             Append(out, Element(begin, partText, 0, NoColor)))

\* lines 149-201
renderSegment(t, notes) ==
    IF Len(notes) = 0
    THEN <<Element(0, t, 0, NoColor)>>
    ELSE renderLoop(0, sortAscending(pointsOf(t, notes)), t, notes, <<>>)

\* ------------------------------------------------------------------ view inputs
Alphabet == <<"a", "b", "c", "d", "e", "f", "g", "h">>

\* the worked example: an 8-character text with highlights [0,5) and then [3,8)
ExampleText == Alphabet
ExampleRanges == { <<0, 5>>, <<3, 8>> }

\* segment texts: every position holds a different character
Texts == { SubSeq(Alphabet, 1, n) : n \in 0..MaxLen } \cup {ExampleText}

\* HIGHLIGHT_COLORS (lines 19-25)
HIGHLIGHT_COLORS == <<"#FDE047", "#86EFAC", "#93C5FD", "#F9A8D4", "#FCA5A5">>

\* offsets a stored note can carry for a text of this length: one below the text,
\* inside it, one beyond it
Offsets(length) == (0 - 1)..(length + 1)

\* the highlight fields of a stored note: both offsets, or (the fields are optional)
\* neither
Highlights(t) ==
    IF Len(t) <= MaxLen
    THEN [highlightStart : Offsets(Len(t)), highlightEnd : Offsets(Len(t))]
           \cup { [x \in {} |-> 0] }
    ELSE { [highlightStart |-> r[1], highlightEnd |-> r[2]] : r \in ExampleRanges }

\* the k-th note of a segment gets the k-th colour, so the notes of one segment differ
\* in colour
withColor(h, k) ==
    [f \in DOMAIN h \cup {"color"} |->
        IF f = "color" THEN HIGHLIGHT_COLORS[((k - 1) % Len(HIGHLIGHT_COLORS)) + 1]
        ELSE h[f]]

\* the parent stores the new note last (saveNote pushes) and the view renders again
addNote(h) ==
    /\ Len(segmentNotes) < MaxNotes
    /\ segmentNotes' = Append(segmentNotes, withColor(h, Len(segmentNotes) + 1))
    /\ elements' = renderSegment(text, segmentNotes')
    /\ UNCHANGED text
    /\ UNCHANGED nonView

\* ------------------------------------------------------------------ selection capture
\* the transcript on screen: two segments; the first carries a note on its second
\* character, so it is rendered as two spans
ShownTranscript == << <<"a", "b">>, <<"c">> >>
ShownNotes == << <<[highlightStart |-> 1, highlightEnd |-> 2, color |-> "#86EFAC"]>>, <<>> >>

\* data-index of the segment containers (line 228), and no container at all
Containers == 0..(Len(ShownTranscript) - 1)
NoContainer == 0 - 1

\* lines 226-233: the text nodes inside the container of segment index: the rendered
\* spans, then the text node " "
textNodes(index) ==
    LET spans == renderSegment(ShownTranscript[index + 1], ShownNotes[index + 1])
    IN  [k \in 1..Len(spans) |-> spans[k].text] \o << <<" ">> >>

\* text outside every segment container: the popover's label
OutsideText == <<"x">>

\* a boundary point of the document: a text node and an offset into it
Positions ==
    UNION { { [container |-> c, node |-> k, offset |-> o] :
                o \in 0..Len(textNodes(c)[k]) } :
            <<c, k>> \in { <<c, k>> \in Containers \X (1..(MaxLen + 1)) :
                             k <= Len(textNodes(c)) } }
      \cup { [container |-> NoContainer, node |-> 1, offset |-> o] :
                o \in 0..Len(OutsideText) }

\* window.getSelection(): no range at all, or an anchor and a focus
NoRanges == [ranges |-> 0]
WinSelections ==
    {NoRanges} \cup { [ranges |-> 1, anchor |-> a, focus |-> f] : a, f \in Positions }

isCollapsed(ws) == ws.ranges = 0 \/ ws.anchor = ws.focus

\* lines 80-88 and 94-103: the closest ancestor that has data-index
segmentNodeOf(position) == position.container

\* lines 57-70: the characters before the target in the container's text nodes; when
\* the walk does not meet the target node, all of them
RECURSIVE walk(_, _, _, _)
walk(nodes, k, target, offset) ==
    IF k > Len(nodes) THEN offset
    ELSE IF k = target.node THEN offset + target.offset
    ELSE walk(nodes, k + 1, target, offset + Len(nodes[k]))

getRelativeOffset(container, target) ==
    IF target.container = container
    THEN walk(textNodes(container), 1, target, 0)
    ELSE walk(textNodes(container), 1, [target EXCEPT !.node = 0], 0)

RECURSIVE Flatten(_)
Flatten(seqs) == IF seqs = <<>> THEN <<>> ELSE Head(seqs) \o Flatten(Tail(seqs))

\* the text of the whole document in document order: the containers, then the popover
RECURSIVE textBefore(_)
textBefore(c) ==
    IF c = 0 THEN <<>> ELSE textBefore(c - 1) \o Flatten(textNodes(c - 1))

documentOffset(position) ==
    IF position.container = NoContainer
    THEN Len(textBefore(Len(ShownTranscript))) + position.offset
    ELSE Len(textBefore(position.container))
           + getRelativeOffset(position.container, position)

\* Selection.toString(): the text between the two boundary points
toString(ws) ==
    IF ws.ranges = 0 THEN <<>>
    ELSE substring(textBefore(Len(ShownTranscript)) \o OutsideText,
                   documentOffset(ws.anchor), documentOffset(ws.focus))

NoSelection == [segmentIndex |-> NoContainer]

\* what the user can have typed into the popover
NoteContents == { <<>>, <<" ">>, <<"n">> }

\* the user changes the document's selection (drag, keyboard, script)
select(ws) ==
    /\ winSelection' = ws
    /\ handled' = "none"
    /\ UNCHANGED <<selection, noteContent, selectedColor, added>>
    /\ UNCHANGED nonSelect

\* lines 46-55: mousedown anywhere in the window
handleClick(inPopover) ==
    /\ inPopover => selection # NoSelection
    /\ IF selection # NoSelection /\ ~inPopover
       THEN /\ selection' = NoSelection
            /\ winSelection' = NoRanges
       ELSE UNCHANGED <<selection, winSelection>>
    /\ handled' = "handleClick"
    /\ added' = <<>>
    /\ UNCHANGED <<noteContent, selectedColor>>
    /\ UNCHANGED nonSelect

\* (mutant) takes the anchor's segment without looking at the focus
handleMouseUp_anchorOnly ==
    /\ handled' = "handleMouseUp"
    /\ added' = <<>>
    /\ IF isCollapsed(winSelection)
       THEN UNCHANGED <<selection, noteContent, selectedColor>>
       ELSE LET segmentNode == segmentNodeOf(winSelection.anchor)
                anchorOffset == getRelativeOffset(segmentNode, winSelection.anchor)
                focusOffset == getRelativeOffset(segmentNode, winSelection.focus)
            IN  IF segmentNode # NoContainer /\ Len(toString(winSelection)) > 0
                THEN /\ selection' = [segmentIndex |-> segmentNode,
                                      text |-> toString(winSelection),
                                      startOffset |-> Min(anchorOffset, focusOffset),
                                      endOffset |-> Max(anchorOffset, focusOffset)]
                     /\ noteContent' = <<>>
                     /\ selectedColor' = HIGHLIGHT_COLORS[1]
                ELSE UNCHANGED <<selection, noteContent, selectedColor>>
    /\ UNCHANGED winSelection
    /\ UNCHANGED nonSelect

\* lines 72-130: mouseup inside the scrollable area, which holds the segment
\* containers and the popover
handleMouseUp ==
    /\ handled' = "handleMouseUp"
    /\ added' = <<>>
    /\ IF isCollapsed(winSelection)
       THEN UNCHANGED <<selection, noteContent, selectedColor>>
       ELSE LET segmentNode == segmentNodeOf(winSelection.anchor)
                focusSegmentNode == segmentNodeOf(winSelection.focus)
                anchorOffset == getRelativeOffset(segmentNode, winSelection.anchor)
                focusOffset == getRelativeOffset(segmentNode, winSelection.focus)
            IN  IF /\ segmentNode # NoContainer
                   /\ segmentNode = focusSegmentNode
                   /\ Len(toString(winSelection)) > 0
                THEN /\ selection' = [segmentIndex |-> segmentNode,
                                      text |-> toString(winSelection),
                                      startOffset |-> Min(anchorOffset, focusOffset),
                                      endOffset |-> Max(anchorOffset, focusOffset)]
                     /\ noteContent' = <<>>
                     /\ selectedColor' = HIGHLIGHT_COLORS[1]
                ELSE UNCHANGED <<selection, noteContent, selectedColor>>
    /\ UNCHANGED winSelection
    /\ UNCHANGED nonSelect

\* line 269: the textarea of the popover
setNoteContent(value) ==
    /\ selection # NoSelection
    /\ noteContent' = value
    /\ handled' = "setNoteContent"
    /\ added' = <<>>
    /\ UNCHANGED <<selection, selectedColor, winSelection>>
    /\ UNCHANGED nonSelect

\* line 255: a button of the colour picker
setSelectedColor(hex) ==
    /\ selection # NoSelection
    /\ selectedColor' = hex
    /\ handled' = "setSelectedColor"
    /\ added' = <<>>
    /\ UNCHANGED <<selection, noteContent, winSelection>>
    /\ UNCHANGED nonSelect

\* line 280: the Cancel button
cancel ==
    /\ selection # NoSelection
    /\ selection' = NoSelection
    /\ winSelection' = NoRanges
    /\ handled' = "cancel"
    /\ added' = <<>>
    /\ UNCHANGED <<noteContent, selectedColor>>
    /\ UNCHANGED nonSelect

\* (mutant) line 133 without trim(): a blank note is saved
saveHighlight_untrimmed ==
    /\ handled' = "saveHighlight"
    /\ IF selection # NoSelection /\ noteContent # <<>>
       THEN /\ added' = << [segmentIndex |-> selection.segmentIndex,
                            content |-> noteContent,
                            quote |-> selection.text,
                            highlightStart |-> selection.startOffset,
                            highlightEnd |-> selection.endOffset,
                            color |-> selectedColor] >>
            /\ selection' = NoSelection
            /\ noteContent' = <<>>
            /\ winSelection' = NoRanges
       ELSE /\ added' = <<>>
            /\ UNCHANGED <<selection, noteContent, winSelection>>
    /\ UNCHANGED selectedColor
    /\ UNCHANGED nonSelect

\* lines 132-146: the Save button, or Enter in the textarea (lines 270-275, 285);
\* called without a pending selection it does nothing (line 133)
saveHighlight ==
    /\ handled' = "saveHighlight"
    /\ IF selection # NoSelection /\ trim(noteContent) # <<>>
       THEN /\ added' = << [segmentIndex |-> selection.segmentIndex,
                            content |-> noteContent,
                            quote |-> selection.text,
                            highlightStart |-> selection.startOffset,
                            highlightEnd |-> selection.endOffset,
                            color |-> selectedColor] >>
            /\ selection' = NoSelection
            /\ noteContent' = <<>>
            /\ winSelection' = NoRanges
       ELSE /\ added' = <<>>
            /\ UNCHANGED <<selection, noteContent, winSelection>>
    /\ UNCHANGED selectedColor
    /\ UNCHANGED nonSelect

\* lines 33-42: the component as mounted
SelectInit ==
    /\ selection = NoSelection
    /\ noteContent = <<>>
    /\ selectedColor = HIGHLIGHT_COLORS[1]
    /\ winSelection = NoRanges
    /\ handled = "none"
    /\ added = <<>>

\* ------------------------------------------------------------------ speaking rate
\* String.prototype.split(/\s+/): the pieces between the runs of whitespace; a string
\* without whitespace, the empty string too, is one piece
RECURSIVE splitLoop(_, _, _, _)
splitLoop(s, k, piece, pieces) ==
    IF k > Len(s) THEN Append(pieces, piece)
    ELSE IF s[k] \in Whitespace
    THEN IF k > 1 /\ s[k - 1] \in Whitespace
         THEN splitLoop(s, k + 1, piece, pieces)
         ELSE splitLoop(s, k + 1, <<>>, Append(pieces, piece))
    ELSE splitLoop(s, k + 1, Append(piece, s[k]), pieces)

split(s) == splitLoop(s, 1, <<>>, <<>>)

\* line 406: seg.text.trim().split(/\s+/).length
wordsOf(seg) == Len(split(trim(seg.text)))

\* Math.round of the fraction num / den, den > 0: the nearest integer, a half goes up
round(num, den) == (2 * num + den) \div (2 * den)

\* (mutant) the rate cut off below the point, not rounded
wpmOf_floor(words, duration) ==
    IF duration > 0 THEN (words * 60 * 1000) \div duration ELSE 0

\* lines 410 and 419: duration > 0 ? Math.round((words / duration) * 60) : 0, with the
\* duration in milliseconds
wpmOf(words, duration) ==
    IF duration > 0 THEN round(words * 60 * 1000, duration) ELSE 0

RECURSIVE sum(_)
sum(ns) == IF ns = <<>> THEN 0 ELSE Head(ns) + sum(Tail(ns))

\* (mutant) the time spoken: the durations of the segments added up
totalDurationOf_spoken(t) ==
    sum([k \in 1..Len(t) |-> t[k].endTime - t[k].startTime])

\* lines 414-416
totalDurationOf(t) == t[Len(t)].endTime - t[1].startTime

\* (mutant) an empty transcript gets the statistics of one silent word
EmptyStats_oneWord == [wpm |-> 60, totalWords |-> 1, duration |-> 1000, segments |-> <<>>]

\* line 402
EmptyStats == [wpm |-> 0, totalWords |-> 0, duration |-> 0, segments |-> <<>>]

\* lines 401-427
computeStats(t) ==
    IF Len(t) = 0 THEN EmptyStats
    ELSE LET totalWords == sum([k \in 1..Len(t) |-> wordsOf(t[k])])
             segmentStats ==
                 [k \in 1..Len(t) |->
                     [startTime |-> t[k].startTime, endTime |-> t[k].endTime,
                      text |-> t[k].text,
                      wpm |-> wpmOf(wordsOf(t[k]), t[k].endTime - t[k].startTime)]]
             totalDuration == totalDurationOf(t)
         IN  [wpm |-> wpmOf(totalWords, totalDuration),
              totalWords |-> totalWords,
              duration |-> totalDuration,
              segments |-> segmentStats]

\* (mutant) the boundaries belong to the lower bucket
getSpeedCategory_closed(wpm) ==
    IF wpm <= 110 THEN "Slow"
    ELSE IF wpm <= 130 THEN "Moderate"
    ELSE IF wpm <= 160 THEN "Conversational"
    ELSE "Fast"

\* lines 429-434: the label
getSpeedCategory(wpm) ==
    IF wpm < 110 THEN "Slow"
    ELSE IF wpm < 130 THEN "Moderate"
    ELSE IF wpm < 160 THEN "Conversational"
    ELSE "Fast"

\* n words, one space between them
RECURSIVE Words(_)
Words(n) ==
    IF n = 0 THEN <<>>
    ELSE IF n = 1 THEN <<"w">>
    ELSE Words(n - 1) \o <<" ", "w">>

\* segment texts: empty, blank, one word, two words with padding and a double space,
\* three words
RateTexts ==
    { <<>>, <<" ">>, Words(1), <<" ", "w", " ", " ", "w", " ">>, Words(3) }

\* segments of a finished transcript, times in milliseconds.  The transcript may come
\* from the remote transcription call, so a segment may end before it starts.
\* Next to the general ones: single words spoken at the rates around the category
\* boundaries, ten words in no time, and five words in two seconds (150 a minute).
PaceDurations == {550, 545, 465, 461, 377, 375}
RateSegments ==
    [startTime : {0, 1000}, endTime : {0, 1000, 7000}, text : RateTexts]
      \cup { Segment(0, d, Words(1)) : d \in PaceDurations }
      \cup { Segment(0, 0, Words(10)), Segment(0, 2000, Words(5)) }

\* the view is rendered again with a transcript that has one more segment
analyze(seg) ==
    /\ Len(rateTranscript) < MaxSegs
    /\ rateTranscript' = Append(rateTranscript, seg)
    /\ stats' = computeStats(rateTranscript')
    /\ category' = getSpeedCategory(stats'.wpm)
    /\ UNCHANGED nonRate

\* the view before any transcript exists
RateInit ==
    /\ rateTranscript = <<>>
    /\ stats = computeStats(rateTranscript)
    /\ category = getSpeedCategory(stats.wpm)

\* ------------------------------------------------------------------ storageService
\* a property whose value is undefined; JSON.stringify leaves such properties out
Undefined == "undefined"
\* the properties of Project that can hold undefined (storageService.ts 192-193)
Droppable == {"videoFile", "videoUrl"}

\* JSON.parse(JSON.stringify(object)) for an object of strings and numbers
jsonRoundTrip(object) ==
    [f \in { g \in DOMAIN object : ~(g \in Droppable /\ object[g] = Undefined) }
        |-> object[f]]

\* localStorage.setItem(key, JSON.stringify(list)), read back with JSON.parse
stringified(list) == [k \in DOMAIN list |-> jsonRoundTrip(list[k])]

\* Array.prototype.findIndex, given the places (from 1) of the elements that
\* pass the test: the index, from 0, of the first of them; -1 when there is
\* none.  Array.prototype.find is truthy exactly when it is not -1.
findIndex(passing) ==
    IF passing = {} THEN 0 - 1
    ELSE (CHOOSE k \in passing : \A m \in passing : k <= m) - 1

\* Array.prototype.filter, given the places of the elements that pass the
\* test: those elements in their order
filter(list, passing) ==
    LET kept[k \in 0..Len(list)] ==
            IF k = 0 THEN <<>>
            ELSE IF k \in passing THEN Append(kept[k - 1], list[k])
            ELSE kept[k - 1]
    IN  kept[Len(list)]

\* Array.prototype.sort((a, b) => a.timestamp - b.timestamp): stable insertion
RECURSIVE insertByTimestamp(_, _)
insertByTimestamp(sorted, note) ==
    IF sorted = <<>> THEN <<note>>
    ELSE IF sorted[Len(sorted)].timestamp <= note.timestamp THEN Append(sorted, note)
    ELSE Append(insertByTimestamp(SubSeq(sorted, 1, Len(sorted) - 1), note),
                sorted[Len(sorted)])

RECURSIVE sortByTimestamp(_)
sortByTimestamp(list) ==
    IF list = <<>> THEN <<>>
    ELSE insertByTimestamp(sortByTimestamp(SubSeq(list, 1, Len(list) - 1)),
                           list[Len(list)])

\* crypto.randomUUID(): an id never handed out before
UUIDs == <<"uuid-1", "uuid-2", "uuid-3">>
GuestId == "default-guest-user"
GuestEmail == "guest@commclimb.local"
NoUser == "none"
Guest == [id |-> GuestId, email |-> GuestEmail, name |-> "Guest", password |-> ""]

\* email.split('@')[0]
RECURSIVE beforeAt(_)
beforeAt(chars) ==
    IF chars = <<>> \/ Head(chars) = "@" THEN <<>>
    ELSE <<Head(chars)>> \o beforeAt(Tail(chars))

\* the emails people register with, as strings and as their characters
Emails == {"al@x.org", GuestEmail}
charsOf(email) ==
    IF email = GuestEmail THEN <<"g", "u", "e", "s", "t", "@">> ELSE <<"a", "l", "@">>
Passwords == {"pw"}

\* the record of a call: the function, its key argument, the message of the
\* Error it threw, and how many users, projects and notes it found stored
StoreCalled(op, arg, outcome) ==
    [op |-> op, arg |-> arg, thrown |-> outcome,
     had |-> <<Len(storedUsers), Len(storedProjects), Len(storedNotes)>>]

\* lines 21-41
registerUser(email, password) ==
    /\ uuids < Len(UUIDs)
    /\ IF findIndex({ k \in DOMAIN storedUsers : storedUsers[k].email = email }) >= 0
       THEN /\ storeCall' = StoreCalled("registerUser", email, "User already exists")
            /\ UNCHANGED <<storedUsers, uuids>>
       ELSE /\ storedUsers' = stringified(Append(storedUsers,
                                  [id |-> UUIDs[uuids + 1], email |-> email,
                                   name |-> beforeAt(charsOf(email)),
                                   password |-> password]))
            /\ uuids' = uuids + 1
            /\ storeCall' = StoreCalled("registerUser", email, "none")
    /\ UNCHANGED <<storedProjects, storedNotes, currentUser>>
    /\ UNCHANGED nonStore

\* lines 64-87
initializeGuestSession ==
    /\ IF findIndex({ k \in DOMAIN storedUsers : storedUsers[k].id = GuestId }) >= 0
       THEN UNCHANGED storedUsers
       ELSE storedUsers' = stringified(Append(storedUsers, Guest))
    /\ currentUser' = GuestId
    /\ storeCall' = StoreCalled("initializeGuestSession", GuestId, "none")
    /\ UNCHANGED <<storedProjects, storedNotes, uuids>>
    /\ UNCHANGED nonStore

\* the projects the application saves: a fresh recording carries its file and
\* blob URL (TranscriptView.tsx 378-388), a project loaded from the store does not
ProjectIds == {"p1", "p2"}
ProjectInputs ==
    [id : ProjectIds, userId : {GuestId}, name : {"first", "renamed"}]
      \cup [id : ProjectIds, userId : {GuestId}, name : {"first"},
            videoFile : {"File"}, videoUrl : {"blob:1"}]

\* line 104-108: { ...project, videoFile: undefined, videoUrl: undefined }
storedProjectOf(project) ==
    [f \in DOMAIN project \cup Droppable |->
        IF f \in Droppable THEN Undefined ELSE project[f]]

\* (mutant) pushes without looking for the id
saveProject_pushes(project) ==
    /\ Len(storedProjects) <= Cardinality(ProjectIds)
    /\ storedProjects' = stringified(Append(storedProjects, storedProjectOf(project)))
    /\ storeCall' = StoreCalled("saveProject", project.id, "none")
    /\ UNCHANGED <<storedUsers, storedNotes, currentUser, uuids>>
    /\ UNCHANGED nonStore

\* lines 97-117
saveProject(project) ==
    /\ LET existingIndex == findIndex({ k \in DOMAIN storedProjects :
                                             storedProjects[k].id = project.id })
       IN  IF existingIndex >= 0
           THEN storedProjects' = stringified([storedProjects EXCEPT
                                      ![existingIndex + 1] = storedProjectOf(project)])
           ELSE storedProjects' = stringified(Append(storedProjects,
                                                     storedProjectOf(project)))
    /\ storeCall' = StoreCalled("saveProject", project.id, "none")
    /\ UNCHANGED <<storedUsers, storedNotes, currentUser, uuids>>
    /\ UNCHANGED nonStore

\* (mutant) the notes of the project are left in the store
deleteProject_keepsNotes(projectId) ==
    /\ storedProjects' = stringified(filter(storedProjects,
                            { k \in DOMAIN storedProjects :
                                storedProjects[k].id # projectId }))
    /\ storeCall' = StoreCalled("deleteProject", projectId, "none")
    /\ UNCHANGED <<storedUsers, storedNotes, currentUser, uuids>>
    /\ UNCHANGED nonStore

\* lines 119-131
deleteProject(projectId) ==
    /\ storedProjects' = stringified(filter(storedProjects,
                            { k \in DOMAIN storedProjects :
                                storedProjects[k].id # projectId }))
    /\ storedNotes' = stringified(filter(storedNotes,
                         { k \in DOMAIN storedNotes :
                             storedNotes[k].projectId # projectId }))
    /\ storeCall' = StoreCalled("deleteProject", projectId, "none")
    /\ UNCHANGED <<storedUsers, currentUser, uuids>>
    /\ UNCHANGED nonStore

\* lines 135-139
getNotes(projectId) ==
    sortByTimestamp(filter(storedNotes, { k \in DOMAIN storedNotes :
                                            storedNotes[k].projectId = projectId }))

\* the notes the application saves (TranscriptView.tsx 440-447); the second is
\* earlier on the recording than the first
NoteInputs ==
    { [id |-> "n1", projectId |-> "p1", timestamp |-> 1],
      [id |-> "n2", projectId |-> "p1", timestamp |-> 0],
      [id |-> "n3", projectId |-> "p2", timestamp |-> 0] }

\* lines 141-146
saveNote(note) ==
    /\ Len(storedNotes) < MaxStored
    /\ storedNotes' = stringified(Append(storedNotes, note))
    /\ storeCall' = StoreCalled("saveNote", note.id, "none")
    /\ UNCHANGED <<storedUsers, storedProjects, currentUser, uuids>>
    /\ UNCHANGED nonStore

\* lines 148-153
deleteNote(noteId) ==
    /\ storedNotes' = stringified(filter(storedNotes,
                         { k \in DOMAIN storedNotes : storedNotes[k].id # noteId }))
    /\ storeCall' = StoreCalled("deleteNote", noteId, "none")
    /\ UNCHANGED <<storedUsers, storedProjects, currentUser, uuids>>
    /\ UNCHANGED nonStore

\* an empty localStorage: getItem gives null, which every function reads as []
StoreInit ==
    /\ storedUsers = <<>>
    /\ storedProjects = <<>>
    /\ storedNotes = <<>>
    /\ currentUser = NoUser
    /\ uuids = 0
    /\ storeCall = StoreCalled("none", "", "none")

\* ------------------------------------------------------------------ specification
\* lines 81-93: the tracker as constructed, with or without window.SpeechRecognition
TrackerInit ==
    /\ recognition \in BOOLEAN
    /\ isListening = FALSE
    /\ segments = 1
    /\ heap = [r \in ArrayRefs |-> <<>>]
    /\ startTime = 0
    /\ currentSegmentStart = 0
    /\ now = 1
    /\ recState = "idle"
    /\ endPending = FALSE
    /\ calls = <<>>
    /\ last = Called("new")
    /\ fault = "none"
    /\ transcript = NoRef

\* the view showing one segment that has no notes yet
ViewInit ==
    /\ text \in Texts
    /\ segmentNotes = <<>>
    /\ elements = renderSegment(text, segmentNotes)

\* the tracker at work; the view shows an empty segment
Init ==
    /\ TrackerInit
    /\ ViewInit
    /\ text = <<>>
    /\ SelectInit
    /\ RateInit
    /\ RecorderInit
    /\ StoreInit

Next ==
    \/ start
    \/ stop
    \/ \E event \in Events : onresult(event)
    \/ onerror
    \/ recognizerEnds
    \/ onend
    \/ tick

Spec == Init /\ [][Next]_vars

\* the view at work on a finished transcript; the tracker is not in use
InitView ==
    /\ TrackerInit
    /\ recognition = FALSE
    /\ ViewInit
    /\ SelectInit
    /\ RateInit
    /\ RecorderInit
    /\ StoreInit

NextView ==
    \E h \in Highlights(text) : addNote(h)

SpecView == InitView /\ [][NextView]_vars

\* the speaking-rate view given a transcript that grows segment by segment
NextRate ==
    \E seg \in RateSegments : analyze(seg)

InitRate ==
    /\ Init
    /\ recognition = FALSE

SpecRate == InitRate /\ [][NextRate]_vars

\* the user selecting text and writing notes on a finished transcript
NextSelect ==
    \/ \E ws \in WinSelections : select(ws)
    \/ \E inPopover \in BOOLEAN : handleClick(inPopover)
    \/ handleMouseUp
    \/ \E value \in NoteContents : setNoteContent(value)
    \/ \E k \in DOMAIN HIGHLIGHT_COLORS : setSelectedColor(HIGHLIGHT_COLORS[k])
    \/ cancel
    \/ saveHighlight

InitSelect ==
    /\ Init
    /\ recognition = FALSE

SpecSelect == InitSelect /\ [][NextSelect]_vars

\* what the recognizer hears while VideoRecorder is mounted: one padded phrase at a time
HeardEvents ==
    { event \in Events : /\ Len(event.results) = 1
                         /\ event.results[1] = [isFinal |-> TRUE, transcript |-> <<" ", "a">>] }

\* VideoRecorder driving the tracker, and the tracker's methods called directly
NextRecorder ==
    \/ mount
    \/ startCamera
    \/ \E granted \in BOOLEAN : cameraSettles(granted)
    \/ \E recordable \in BOOLEAN : startRecording(recordable)
    \/ stopRecording
    \/ start
    \/ stop
    \/ \E event \in HeardEvents : onresult(event)
    \/ onerror
    \/ recognizerEnds
    \/ onend
    \/ tick

SpecRecorder == Init /\ [][NextRecorder]_vars

\* the storage functions called in any order on a store that starts empty
NextStore ==
    \/ \E email \in Emails, password \in Passwords : registerUser(email, password)
    \/ initializeGuestSession
    \/ \E project \in ProjectInputs : saveProject(project)
    \/ \E projectId \in ProjectIds : deleteProject(projectId)
    \/ \E note \in NoteInputs : saveNote(note)
    \/ \E note \in NoteInputs : deleteNote(note.id)

InitStore ==
    /\ Init
    /\ recognition = FALSE

SpecStore == InitStore /\ [][NextStore]_vars

\* ------------------------------------------------------------------ properties
\* the working list, and the list the last stop() of this session returned
Working == heap[segments]
Returned == heap[transcript]

\* stop() has returned in this session and start() was not called since
Stopped == transcript # NoRef /\ ~isListening

\* the text between the first and the last character that is not whitespace
Stripped(t) ==
    LET solid == { k \in DOMAIN t : t[k] \notin Whitespace }
    IN  IF solid = {} THEN <<>>
        ELSE SubSeq(t, CHOOSE k \in solid : \A m \in solid : k <= m,
                       CHOOSE k \in solid : \A m \in solid : k >= m)

\* the new results of an event that are final and not blank
Spoken(event) == Finals(event) \ Blanks(event)

\* events whose final results are all blank, and events with one final result, which
\* has text
BlankEvents == { event \in Events : Finals(event) # {} /\ Spoken(event) = {} }
SpokenEvents ==
    { event \in Events :
        Cardinality(Finals(event)) = 1 /\ Cardinality(Spoken(event)) = 1 }

\* C1: once stop() has returned, a final-result event that arrives late appends
\* nothing and leaves the cursor alone, so the list stop() returned stays as it was.
C1_LateResultIgnored ==
    [][ \A event \in Events :
          (Stopped /\ onresult(event))
            => (heap'[transcript] = Returned
                /\ currentSegmentStart' = currentSegmentStart) ]_vars

\* C2: in every reachable state, in every segment list, startTime never decreases
\* along the list and every segment has startTime <= endTime.
C2_Ordered ==
    \A r \in ArrayRefs :
        /\ \A i \in DOMAIN heap[r] : heap[r][i].startTime <= heap[r][i].endTime
        /\ \A i, j \in DOMAIN heap[r] :
              i < j => heap[r][i].startTime <= heap[r][j].startTime

\* two segments, the first of positive duration, the second starting later
C2_Witness ==
    /\ Len(Working) >= 2
    /\ Working[1].startTime < Working[1].endTime
    /\ Working[1].startTime < Working[2].startTime

\* C3: a final-result event whose text is blank (empty once trimmed) leaves the
\* segment list and the cursor exactly as they were.
C3_BlankIgnored ==
    [][ (/\ last'.op = "onresult" /\ last'.finals >= 1 /\ last'.blanks = last'.finals
         /\ \E event \in BlankEvents : onresult(event))
          => (heap' = heap /\ segments' = segments
              /\ currentSegmentStart' = currentSegmentStart) ]_vars

\* a blank final result was the last thing delivered, to a list that has a segment
C3_Witness ==
    /\ last.op = "onresult"
    /\ last.finals >= 1
    /\ last.blanks = last.finals
    /\ Len(Working) >= 1
    /\ currentSegmentStart > 0

\* C4: during an active session, a final result with text appends exactly the segment
\* {startTime: the cursor before, endTime: event instant - session start, text:
\* the text trimmed} at the end, moves the cursor to that endTime and changes no
\* earlier segment.
C4_AppendsOne ==
    [][ \A event \in SpokenEvents :
          (/\ isListening /\ last'.op = "onresult" /\ last'.finals = 1 /\ last'.blanks = 0
           /\ onresult(event))
            => LET i == CHOOSE k \in Spoken(event) : TRUE
                   said == NewResults(event)[i].transcript
               IN  /\ heap'[segments] =
                         Append(Working, [startTime |-> currentSegmentStart,
                                          endTime |-> now - startTime,
                                          text |-> Stripped(said)])
                   /\ currentSegmentStart' = now - startTime
                   /\ segments' = segments ]_vars

\* one final result with text was delivered last, in an active session that had a
\* segment before, some time after the session began
C4_Witness ==
    /\ last.op = "onresult"
    /\ last.finals = 1
    /\ last.blanks = 0
    /\ isListening
    /\ Len(Working) = 2
    /\ Working[2].endTime > Working[2].startTime
    /\ currentSegmentStart = Working[2].endTime

\* C5: an 'ended' event that finds the session inactive calls no recognizer start and
\* leaves the session inactive; whatever the order of stop() and a pending 'ended'
\* event, while the session is inactive no recognizer start has been issued and the
\* recognizer is not running.
C5_NoResurrection ==
    /\ [][ (onend /\ ~isListening)
             => (calls' = <<>> /\ ~isListening' /\ recState' = recState) ]_vars
    /\ [](~isListening => (calls # <<"start">> /\ recState # "running"))

\* after stop(), the 'ended' event was handled and the recognizer stays idle
C5_Witness ==
    /\ last.op = "onend"
    /\ Stopped
    /\ calls = <<>>
    /\ recState = "idle"
    /\ ~endPending

\* C6: an 'ended' event that finds the session active makes exactly one restart
\* attempt and leaves the segment list, the session start instant and the cursor
\* unchanged.
C6_RestartKeepsSession ==
    [][ (onend /\ isListening)
          => (/\ calls' = <<"start">>
              /\ heap' = heap
              /\ segments' = segments
              /\ startTime' = startTime
              /\ currentSegmentStart' = currentSegmentStart
              /\ isListening') ]_vars

\* the recognizer ended in an active session that has a segment and was restarted
C6_Witness ==
    /\ last.op = "onend"
    /\ isListening
    /\ calls = <<"start">>
    /\ recState = "running"
    /\ Len(Working) >= 1
    /\ currentSegmentStart > 0

\* where a rendered run ends
EndOf(e) == e.start + Len(e.text)

RECURSIVE Concat(_)
Concat(es) == IF es = <<>> THEN <<>> ELSE Head(es).text \o Concat(Tail(es))

\* C7: the runs, joined in order, are the text; the first run starts at 0, each run
\* starts where the one before ends, the last ends at the length of the text, and
\* every character lies in exactly one run.
C7_Partition ==
    /\ Concat(elements) = text
    /\ elements # <<>> =>
          /\ elements[1].start = 0
          /\ EndOf(elements[Len(elements)]) = Len(text)
    /\ \A k \in 1..(Len(elements) - 1) : elements[k + 1].start = EndOf(elements[k])
    /\ \A c \in 0..(Len(text) - 1) :
          Cardinality({ k \in DOMAIN elements :
                          elements[k].start <= c /\ c < EndOf(elements[k]) }) = 1

\* two notes that overlap cut the text into four runs
C7_Witness ==
    /\ Len(segmentNotes) = 2
    /\ Len(elements) >= 4

\* the notes whose range [highlightStart, highlightEnd) holds the middle of the run
Covering(e) ==
    { j \in DOMAIN segmentNotes :
        /\ defined(segmentNotes[j], "highlightStart")
        /\ defined(segmentNotes[j], "highlightEnd")
        /\ 2 * segmentNotes[j].highlightStart <= 2 * e.start + Len(e.text)
        /\ 2 * segmentNotes[j].highlightEnd > 2 * e.start + Len(e.text) }

IsExample ==
    /\ text = ExampleText
    /\ Len(segmentNotes) = 2
    /\ segmentNotes[1].highlightStart = 0 /\ segmentNotes[1].highlightEnd = 5
    /\ segmentNotes[2].highlightStart = 3 /\ segmentNotes[2].highlightEnd = 8

\* C8: a run whose middle several notes cover is styled by the one that comes last in
\* the segment's list; a run no note covers is plain.  With [0,5) and then [3,8) on an
\* 8-character text, the run [3,5) has the second note's colour.
C8_LastCoveringWins ==
    /\ \A k \in DOMAIN elements :
          LET e == elements[k]
              winner == CHOOSE j \in Covering(e) : \A m \in Covering(e) : m <= j
          IN  IF Covering(e) = {}
              THEN e.note = 0 /\ e.backgroundColor = NoColor
              ELSE e.note = winner /\ e.backgroundColor = segmentNotes[winner].color
    /\ IsExample =>
          \E k \in DOMAIN elements :
              /\ elements[k].start = 3
              /\ elements[k].text = <<"d", "e">>
              /\ elements[k].note = 2
              /\ elements[k].backgroundColor = segmentNotes[2].color

\* the worked example has been rendered, the two notes in different colours
C8_Witness ==
    /\ IsExample
    /\ segmentNotes[1].color # segmentNotes[2].color
    /\ Len(elements) = 3

\* C9: N notes give at most 2N+1 runs.
C9_RunCount == Len(elements) <= 2 * Len(segmentNotes) + 1

\* one note strictly inside the text gives three runs
C9_Witness ==
    /\ Len(segmentNotes) = 1
    /\ Len(elements) = 3

\* some note has an offset below 0 or beyond the text
OutOfRange ==
    \E j \in DOMAIN segmentNotes :
        \/ /\ defined(segmentNotes[j], "highlightStart")
           /\ segmentNotes[j].highlightStart \notin 0..Len(text)
        \/ /\ defined(segmentNotes[j], "highlightEnd")
           /\ segmentNotes[j].highlightEnd \notin 0..Len(text)

\* C10: with offsets outside [0, L] the boundary points are still all in [0, L], and
\* every run has 0 <= start < end <= L.
C10_Clamped ==
    OutOfRange =>
        /\ pointsOf(text, segmentNotes) \subseteq 0..Len(text)
        /\ \A k \in DOMAIN elements :
              /\ 0 <= elements[k].start
              /\ elements[k].start < EndOf(elements[k])
              /\ EndOf(elements[k]) <= Len(text)

\* a note reaching from below 0 to beyond the text styles the whole text as one run
C10_Witness ==
    /\ Len(text) >= 2
    /\ Len(segmentNotes) = 1
    /\ defined(segmentNotes[1], "highlightStart")
    /\ defined(segmentNotes[1], "highlightEnd")
    /\ segmentNotes[1].highlightStart < 0
    /\ segmentNotes[1].highlightEnd > Len(text)
    /\ Len(elements) = 1
    /\ elements[1].note = 1
    /\ elements[1].text = text

\* the note has both offsets and its start lies after its end
Inverted(n) ==
    /\ defined(n, "highlightStart")
    /\ defined(n, "highlightEnd")
    /\ n.highlightStart > n.highlightEnd

\* the list of notes with the j-th taken out, and where the m-th note of the full
\* list stands in it
Without(notes, j) ==
    [k \in 1..(Len(notes) - 1) |-> IF k < j THEN notes[k] ELSE notes[k + 1]]
PlaceWithout(m, j) == IF m > j THEN m - 1 ELSE m

\* the note that styles character c in a rendering (0: none; -1: c is in no run)
NoteAt(es, c) ==
    LET runs == { k \in DOMAIN es : es[k].start <= c /\ c < es[k].start + Len(es[k].text) }
    IN  IF runs = {} THEN 0 - 1 ELSE es[CHOOSE k \in runs : TRUE].note

\* C11: a note whose highlightStart is greater than its highlightEnd styles no run, and
\* every character of the text is styled by the same note as in the rendering of the
\* list without that note.
C11_InvertedSkipped ==
    \A j \in DOMAIN segmentNotes :
        Inverted(segmentNotes[j]) =>
            /\ \A k \in DOMAIN elements : elements[k].note # j
            /\ \A c \in 0..(Len(text) - 1) :
                  /\ NoteAt(elements, c) >= 0
                  /\ PlaceWithout(NoteAt(elements, c), j) =
                        NoteAt(renderSegment(text, Without(segmentNotes, j)), c)

\* an inverted note whose two offsets lie inside a run that an earlier note styles: the
\* run is cut in three and all three are styled by the earlier note
C11_Witness ==
    /\ Len(segmentNotes) = 2
    /\ ~Inverted(segmentNotes[1])
    /\ Inverted(segmentNotes[2])
    /\ segmentNotes[2].highlightEnd > 0
    /\ segmentNotes[2].highlightStart < Len(text)
    /\ Len(elements) = 3
    /\ \A k \in DOMAIN elements : elements[k].note = 1

\* the document's selection is not collapsed and its two ends are not in one and the
\* same segment container
CrossSegment(ws) ==
    /\ ~isCollapsed(ws)
    /\ \/ ws.anchor.container # ws.focus.container
       \/ ws.anchor.container = NoContainer
       \/ ws.focus.container = NoContainer

\* the text content of a segment container
ContainerText(index) == Flatten(textNodes(index))

\* the pending selection is a stretch of one segment container's text
WithinOneSegment(sel) ==
    /\ sel.segmentIndex \in Containers
    /\ 0 <= sel.startOffset
    /\ sel.startOffset < sel.endOffset
    /\ sel.endOffset <= Len(ContainerText(sel.segmentIndex))
    /\ sel.text = SubSeq(ContainerText(sel.segmentIndex),
                         sel.startOffset + 1, sel.endOffset)

\* C12 as stated: after a mouseup on a selection that spans two segment containers, or
\* has an end outside every container, there is no pending selection.
C12_NoPendingSelection ==
    [][ (handleMouseUp /\ CrossSegment(winSelection))
          => selection' = NoSelection ]_vars

\* C12, amended: such a mouseup leaves the pending selection, the typed text and the
\* colour exactly as they were (no selection when none was pending, the earlier
\* single-segment selection when the popover was open) and calls onAddHighlight for
\* nothing; a pending selection always lies within one segment, and onAddHighlight is
\* only ever called by a save, with the fields of the pending selection.
C12_CrossSegmentRejected ==
    /\ [][ (handleMouseUp /\ CrossSegment(winSelection))
             => (/\ selection' = selection
                 /\ noteContent' = noteContent
                 /\ selectedColor' = selectedColor
                 /\ added' = <<>>) ]_vars
    /\ [](selection # NoSelection => WithinOneSegment(selection))
    /\ [][ (added' # <<>> /\ handled' # "none")
             => (/\ handled' = "saveHighlight"
                 /\ selection # NoSelection
                 /\ Len(added') = 1
                 /\ added'[1].segmentIndex = selection.segmentIndex
                 /\ added'[1].quote = selection.text
                 /\ added'[1].highlightStart = selection.startOffset
                 /\ added'[1].highlightEnd = selection.endOffset) ]_vars

\* a mouseup has just been handled on a selection that runs from the first segment
\* into the second, while the popover was open on an earlier selection
C12_Witness ==
    /\ handled = "handleMouseUp"
    /\ CrossSegment(winSelection)
    /\ winSelection.anchor.container = 0
    /\ winSelection.focus.container = 1
    /\ selection # NoSelection
    /\ noteContent = <<"n">>

\* the whitespace-delimited tokens of a text: the places where a stretch of
\* characters that are not whitespace begins
TokenCount(t) ==
    Cardinality({ k \in DOMAIN t :
                    t[k] \notin Whitespace /\ (k = 1 \/ t[k - 1] \in Whitespace) })

RECURSIVE TokenTotal(_)
TokenTotal(t) ==
    IF t = <<>> THEN 0 ELSE TokenCount(Head(t).text) + TokenTotal(Tail(t))

\* C13: the analyzer counts, for every segment, the whitespace-delimited tokens of its
\* text, so a segment whose trimmed text is empty counts 0 words, and totalWords is the
\* number of tokens of the whole transcript.
C13_WordCount ==
    /\ \A k \in DOMAIN rateTranscript :
          wordsOf(rateTranscript[k]) = TokenCount(rateTranscript[k].text)
    /\ stats.totalWords = TokenTotal(rateTranscript)

\* r is num / den rounded to the nearest integer, a half going up (den > 0)
IsRounded(r, num, den) ==
    /\ 2 * den * r <= 2 * num + den
    /\ 2 * num + den < 2 * den * (r + 1)

\* words a minute for a number of words in a duration given in milliseconds
RateOf(r, words, duration) ==
    IF duration > 0 THEN IsRounded(r, words * 60000, duration) ELSE r = 0

C15_GlobalStats ==
    Len(rateTranscript) > 0 =>
        /\ stats.totalWords = sum([k \in DOMAIN rateTranscript |-> wordsOf(rateTranscript[k])])
        /\ stats.duration = rateTranscript[Len(rateTranscript)].endTime
                               - rateTranscript[1].startTime
        /\ RateOf(stats.wpm, stats.totalWords, stats.duration)

\* two segments with a pause between them: the duration reported is longer than the
\* time spoken
C15_Witness ==
    /\ Len(rateTranscript) = 2
    /\ rateTranscript[1].startTime < rateTranscript[1].endTime
    /\ rateTranscript[1].endTime < rateTranscript[2].startTime
    /\ rateTranscript[2].startTime < rateTranscript[2].endTime
    /\ stats.duration = 7000
    /\ stats.totalWords = 4
    /\ stats.wpm = 34

\* C16: an empty transcript gives wpm 0, totalWords 0, duration 0, no samples, and the
\* category Slow.
C16_EmptyTranscript ==
    rateTranscript = <<>> =>
        /\ stats.wpm = 0
        /\ stats.totalWords = 0
        /\ stats.duration = 0
        /\ stats.segments = <<>>
        /\ category = "Slow"

\* the view rendered without a transcript
C16_Witness ==
    /\ Len(rateTranscript) = 0
    /\ stats = computeStats(<<>>)
    /\ category = getSpeedCategory(stats.wpm)
    /\ category = "Slow"

\* the rates the categories are checked for, and the table of the categories
Rates == (0 - 5)..200
Labels == {"Slow", "Moderate", "Conversational", "Fast"}
InBucket(wpm, label) ==
    \/ label = "Slow" /\ wpm < 110
    \/ label = "Moderate" /\ 110 <= wpm /\ wpm < 130
    \/ label = "Conversational" /\ 130 <= wpm /\ wpm < 160
    \/ label = "Fast" /\ 160 <= wpm

\* C17: every rate falls in exactly one bucket, the one the categorization names, with
\* the boundaries in the higher bucket: 109 Slow, 110 and 129 Moderate, 130 and 159
\* Conversational, 160 Fast; the category shown is the bucket of the global wpm.
C17_Categories ==
    /\ \A wpm \in Rates :
          /\ getSpeedCategory(wpm) \in Labels
          /\ \A label \in Labels : InBucket(wpm, label) <=> getSpeedCategory(wpm) = label
    /\ getSpeedCategory(109) = "Slow"
    /\ getSpeedCategory(110) = "Moderate"
    /\ getSpeedCategory(129) = "Moderate"
    /\ getSpeedCategory(130) = "Conversational"
    /\ getSpeedCategory(159) = "Conversational"
    /\ getSpeedCategory(160) = "Fast"
    /\ InBucket(stats.wpm, category)

\* one word spoken in 375 ms and one in 545 ms: the first at 160 a minute, the two
\* together at 220, the category Fast
C17_Witness ==
    /\ Len(rateTranscript) = 2
    /\ stats.segments[1].wpm = 160
    /\ stats.segments[2].wpm = 110
    /\ stats.wpm = 220
    /\ category = "Fast"

\* the texts of a list of segments
TextsOf(segs) == [k \in DOMAIN segs |-> segs[k].text]

\* what was said in an event: the stripped texts of its new final results that are not
\* blank, in the order of the results array
SpokenTexts(event) ==
    LET Said(result) == result.isFinal /\ ~IsBlank(result.transcript)
        said == SelectSeq(NewResults(event), Said)
    IN  [k \in DOMAIN said |-> Stripped(said[k].transcript)]

\* the events by what the handler records of them, and what was said in each
DigestOf(event) ==
    [op |-> "onresult", finals |-> Cardinality(Finals(event)),
     blanks |-> Cardinality(Blanks(event))]
Delivered ==
    { [event |-> event, digest |-> DigestOf(event), texts |-> SpokenTexts(event)] :
      event \in Events }

\* C18: every event adds, at the end of the list, one segment for each of its final
\* results that has text, in the order of the results array (a step either does so for
\* the event d or is not the handling of d), and nothing but start() and a result
\* event changes the list; so the texts of a session's segments are the texts of the
\* final results in the order they were delivered.
C18_DeliveryOrder ==
    /\ [][ \A d \in Delivered :
             last' = d.digest
               => (\/ /\ TextsOf(heap'[segments]) = TextsOf(Working) \o d.texts
                      /\ segments' = segments
                   \/ ~onresult(d.event)) ]_vars
    /\ [][ (onerror \/ onend \/ recognizerEnds \/ stop \/ tick)
             => heap'[segments'] = Working ]_vars

\* one event brought two final results, " a" and then "b ", to an empty list
C18_Witness ==
    /\ last.op = "onresult"
    /\ last.finals = 2
    /\ last.blanks = 0
    /\ TextsOf(Working) = << <<"a">>, <<"b">> >>

\* C19: stop() on a tracker that has a recognizer leaves the session inactive, calls
\* the recognizer's stop once, and returns the working list itself, with the segments
\* it had and the cursor where it was.
C19_StopFrame ==
    [][ (stop /\ recognition)
          => (/\ ~isListening'
              /\ calls' = <<"stop">>
              /\ transcript' = segments
              /\ segments' = segments
              /\ heap'[transcript'] = Working
              /\ currentSegmentStart' = currentSegmentStart
              /\ startTime' = startTime) ]_vars

\* stop() has just returned a list of two segments
C19_Witness ==
    /\ last.op = "stop"
    /\ recognition
    /\ ~isListening
    /\ calls = <<"stop">>
    /\ recState = "stopping"
    /\ Len(Returned) = 2
    /\ currentSegmentStart > 0

TrackerFields == <<recognition, isListening, segments, startTime, currentSegmentStart, heap>>

\* C21: without the recognition capability (isSupported() false) the tracker is
\* never started: the session is never active and the recognizer never runs,
\* start() changes no field of the tracker, VideoRecorder never gets a stream,
\* never records and never calls a method of the tracker, and every stop()
\* returns an empty list and changes nothing
C21_Unsupported ==
    /\ [](~recognition => /\ ~isListening
                          /\ recState = "idle" /\ ~endPending
                          /\ ~stream /\ ~isRecording /\ ~mediaRecorder
                          /\ recorderCalls = <<>> /\ delivered = NoRef)
    /\ [][(~recognition /\ start) => UNCHANGED TrackerFields]_vars
    /\ [][(~recognition /\ stop)
            => /\ transcript' # NoRef /\ heap'[transcript'] = <<>>
               /\ UNCHANGED TrackerFields]_vars

\* VideoRecorder found the tracker unsupported, and stop() was called on it
C21_Witness ==
    /\ ~recognition
    /\ speechTracker /\ ~isSupported /\ error
    /\ last.op = "stop" /\ transcript # NoRef
    /\ heap[transcript] = <<>>

\* ------------------------------------------------------------------ C22
\* the active flag, the segment list and the cursor
SessionState == <<isListening, segments, heap, currentSegmentStart>>

\* recognition.start() on a recognizer that is not idle throws InvalidStateError
Rejects == recState # "idle"

\* C22: a recognizer error event, and a restart from the ended handler that the
\* recognizer rejects, leave the active flag, the segment list and the cursor
\* as they were and let no exception out of the handler; no handler or method
\* of the tracker ever lets one out
C22_FaultsSwallowed ==
    /\ [](fault # "raised")
    /\ [][onerror => UNCHANGED SessionState /\ fault' = "none"]_vars
    /\ [][(onend /\ isListening /\ Rejects)
            => /\ UNCHANGED SessionState
               /\ UNCHANGED <<recState, startTime>>
               /\ fault' = "caught"]_vars

\* the ended handler of an active session with a segment asked a recognizer
\* that was already running again to start, and caught its refusal
C22_Witness ==
    /\ last.op = "onend" /\ calls = <<"start">>
    /\ fault = "caught"
    /\ isListening
    /\ Working # <<>>

\* ------------------------------------------------------------------ C23
\* start() ran: called on the tracker, or by startRecording (line 76)
StartCalled == start \/ (startRecording(TRUE) /\ recorderCalls' = <<"start">>)

\* the list the last stopRecording got from stop(), once a later start() has run
Earlier == heap[delivered]
SessionOver == delivered # NoRef /\ segments # delivered

\* C23: a start() after a stop() begins a disjoint session: the working list is
\* a new, empty array and not the one stop() returned, time is counted from
\* the instant of this start() and the cursor is 0, so that the first segment
\* of the session starts at 0 and ends at its offset from that instant; and no
\* step of the new session changes the list the earlier stop() returned
C23_DisjointSessions ==
    /\ [][(recognition /\ StartCalled)
            => /\ segments' # segments /\ segments' # delivered
               /\ heap'[segments'] = <<>>
               /\ startTime' = now /\ currentSegmentStart' = 0
               /\ delivered # NoRef => heap'[delivered] = heap[delivered]]_vars
    /\ [][(SessionOver /\ delivered' = delivered)
            => heap'[delivered] = heap[delivered]]_vars
    /\ [][(heap[segments] = <<>> /\ heap'[segments'] # <<>>)
            => /\ heap'[segments'][1].startTime = 0
               /\ heap'[segments'][1].endTime = now - startTime]_vars
    /\ [](Working # <<>> => Working[1].startTime = 0)

\* a second session, started later than the first, has a segment of its own
\* while VideoRecorder holds the list stop() returned for the first
C23_Witness ==
    /\ SessionOver
    /\ Earlier # <<>>
    /\ isListening /\ startTime > 1
    /\ Working # <<>>
    /\ Working[1].endTime # Earlier[1].endTime

\* ------------------------------------------------------------------ C24
\* C24: every annotation handed to onAddHighlight has offsets into the text of
\* its segment: 0 <= highlightStart <= highlightEnd <= length of that text
C24_OffsetsInText ==
    \A k \in DOMAIN added :
        /\ 0 <= added[k].highlightStart
        /\ added[k].highlightStart <= added[k].highlightEnd
        /\ added[k].highlightEnd <= Len(ShownTranscript[added[k].segmentIndex + 1])

\* ------------------------------------------------------------------ C25
\* C25: the runs are a minimal partition: no two consecutive runs have the
\* same active annotation, and no two consecutive runs are both plain
C25_MinimalPartition ==
    \A k \in 1..(Len(elements) - 1) : elements[k].note # elements[k + 1].note

\* ------------------------------------------------------------------ C26
\* each segment starts where the one before it ended, the first at 0
Abuts(segs) ==
    \A k \in DOMAIN segs :
        segs[k].startTime = IF k = 1 THEN 0 ELSE segs[k - 1].endTime

\* C26: in every state of a session the segments of the working list abut, the
\* first starting at 0, and the cursor is the endTime of the last segment, or
\* 0 when there is none
C26_Abutting ==
    /\ Abuts(Working)
    /\ currentSegmentStart = IF Working = <<>> THEN 0
                             ELSE Working[Len(Working)].endTime

\* two segments, the second starting later than 0, and then an error event
C26_Witness ==
    /\ Len(Working) = 2
    /\ Working[1].endTime > 0
    /\ Working[2].startTime = Working[1].endTime
    /\ isListening
    /\ last.op = "onerror"

\* ------------------------------------------------------------------ C27
\* a save that goes through: a selection is pending and the note is not blank
Saves == selection # NoSelection /\ trim(noteContent) # <<>>

\* C27: only saveHighlight calls onAddHighlight, and only with a selection
\* pending and a note that is not blank; otherwise it calls nothing and leaves
\* the pending selection and the note as they are; a save that goes through
\* calls onAddHighlight once, with the segment index, offsets and text of the
\* pending selection, the note and the picked colour, and clears the
\* selection, so that the save after it calls nothing
C27_SaveOnce ==
    /\ [][(handled' # "none" /\ added' # <<>>) => (saveHighlight /\ Saves)]_vars
    /\ [][(saveHighlight /\ ~Saves)
            => added' = <<>> /\ UNCHANGED <<selection, noteContent>>]_vars
    /\ [][(saveHighlight /\ Saves)
            => /\ added' = << [segmentIndex |-> selection.segmentIndex,
                               content |-> noteContent,
                               quote |-> selection.text,
                               highlightStart |-> selection.startOffset,
                               highlightEnd |-> selection.endOffset,
                               color |-> selectedColor] >>
               /\ selection' = NoSelection]_vars
    /\ [][(handled = "saveHighlight" /\ added # <<>> /\ saveHighlight)
            => added' = <<>>]_vars
    /\ [](added # <<>> => selection = NoSelection)

\* a note in another colour than the first was saved on a selection
C27_Witness ==
    /\ handled = "saveHighlight"
    /\ Len(added) = 1
    /\ added[1].color # HIGHLIGHT_COLORS[1]
    /\ selection = NoSelection

\* ------------------------------------------------------------------ C28
\* the entries of a stored list that do not belong to project p, in their order
ProjectsBut(list, p) == SelectSeq(list, LAMBDA x : x.id # p)
NotesBut(list, p) == SelectSeq(list, LAMBDA x : x.projectId # p)

\* C28: after deleteProject(p) no stored project has id p and no stored note
\* has projectId p, so getNotes(p) is empty; the projects and the notes of
\* other projects are the same entries in the same order, getNotes of another
\* project gives what it gave before, and the users are untouched
C28_DeleteProject ==
    [][\A p \in ProjectIds :
          deleteProject(p)
            => /\ \A k \in DOMAIN storedProjects' : storedProjects'[k].id # p
               /\ \A k \in DOMAIN storedNotes' : storedNotes'[k].projectId # p
               /\ storedProjects' = ProjectsBut(storedProjects, p)
               /\ storedNotes' = NotesBut(storedNotes, p)
               /\ getNotes(p)' = <<>>
               /\ \A q \in ProjectIds \ {p} : getNotes(q)' = getNotes(q)
               /\ UNCHANGED <<storedUsers, currentUser>>]_vars

\* deleteProject found two projects and two notes, removed one project and
\* its note, and left the other project with its note
C28_Witness ==
    /\ storeCall.op = "deleteProject"
    /\ storeCall.had[2] = 2 /\ Len(storedProjects) = 1
    /\ storeCall.had[3] = 2 /\ Len(storedNotes) = 1
    /\ storedNotes[1].projectId = storedProjects[1].id

\* ------------------------------------------------------------------ C29
UniqueProjectIds ==
    \A j, k \in DOMAIN storedProjects :
        j # k => storedProjects[j].id # storedProjects[k].id

\* the project as it is to be found in the store: without its file and blob URL
Persisted(project) == [f \in DOMAIN project \ Droppable |-> project[f]]

\* C29: stored project ids are unique and no stored project has a videoFile
\* or videoUrl property; saveProject of an id that is stored replaces that
\* entry where it is and leaves the others and the length alone, and of an id
\* that is not stored appends one entry
C29_SaveProject ==
    /\ [](/\ UniqueProjectIds
          /\ \A k \in DOMAIN storedProjects :
                DOMAIN storedProjects[k] \cap Droppable = {})
    /\ [][\A project \in ProjectInputs :
            saveProject(project)
              => LET at == { k \in DOMAIN storedProjects :
                               storedProjects[k].id = project.id }
                 IN  IF at # {}
                     THEN /\ Len(storedProjects') = Len(storedProjects)
                          /\ \A k \in DOMAIN storedProjects :
                                storedProjects'[k] = IF k \in at THEN Persisted(project)
                                                     ELSE storedProjects[k]
                     ELSE storedProjects' = Append(storedProjects, Persisted(project))]_vars

\* with two projects stored, the first was saved again under a new name and
\* is still the first
C29_Witness ==
    /\ storeCall.op = "saveProject"
    /\ storeCall.had[2] = 2 /\ Len(storedProjects) = 2
    /\ storedProjects[1].id = storeCall.arg
    /\ storedProjects[1].name = "renamed"

\* ------------------------------------------------------------------ C30
\* C30: no two stored users have the same email and at most one has the guest
\* id; registerUser with a stored email throws 'User already exists' and
\* leaves the stored users as they are
C30_UniqueUsers ==
    /\ [](/\ \A j, k \in DOMAIN storedUsers :
                j # k => storedUsers[j].email # storedUsers[k].email
          /\ Cardinality({ k \in DOMAIN storedUsers : storedUsers[k].id = GuestId }) <= 1)
    /\ [][\A email \in Emails, password \in Passwords :
            (/\ registerUser(email, password)
             /\ \E k \in DOMAIN storedUsers : storedUsers[k].email = email)
              => /\ storeCall'.thrown = "User already exists"
                 /\ UNCHANGED storedUsers]_vars
====
